---------------------------- MODULE Spec2Model ----------------------------
(***************************************************************************)
(* Model of the typeinfo crate: the Type descriptor (src/src/lib.rs), the  *)
(* TypeInfo implementations for scalars, arrays and tuples, the def!       *)
(* macro and the TypeInfo derive (src/typeinfo_derive/src/lib.rs).         *)
(*                                                                         *)
(* A Rust type is a record:                                                *)
(*   [k |-> "scalar", name |-> "u16"]                                      *)
(*   [k |-> "array",  elem |-> T, len |-> n]              [T; n]           *)
(*   [k |-> "tuple",  tys |-> <<T1, ..>>]                 (T1, ..)         *)
(*   [k |-> "struct", shape |-> "unit" | "named" | "tuple",                *)
(*    packed |-> BOOLEAN, names |-> <<..>>, tys |-> <<..>>]                *)
(* where packed says that the declaration carries #[repr(packed)].         *)
(* A descriptor (a value of enum Type) is a record with a tag:             *)
(*   [tag |-> "Int8"] .. [tag |-> "Bool"]                                  *)
(*   [tag |-> "Array", ty |-> D, num |-> n]                                *)
(*   [tag |-> "Compound", fields |-> <<[ty, name, offset]..>>, size |-> n] *)
(*   [tag |-> "Tuple",    fields |-> <<[ty, offset]..>>,       size |-> n] *)
(* The descriptors that type_info() returns hold small numbers, which are  *)
(* naturals.  A Type value built by hand can hold any usize: there num and *)
(* size are usize values, the little-endian bytes of the machine word      *)
(* (<<255, 255, 255, 255>> is usize::MAX of a 32-bit host).                *)
(***************************************************************************)
EXTENDS Integers, Sequences, FiniteSets

VARIABLES host, ty, info, status, op, prevTy, prevInfo,
          checks, value, outcome, calls, heap

vars == <<host, ty, info, status, op, prevTy, prevInfo,
          checks, value, outcome, calls, heap>>

RECURSIVE SizeOf(_, _)
RECURSIVE AlignOf(_, _)
RECURSIVE TypeSize(_)
RECURSIVE TypeInfo(_, _)
RECURSIVE ParseTupleFields(_, _, _, _, _)
RECURSIVE Nodes(_)
RECURSIVE SeqSum(_)
RECURSIVE ToUsize(_, _)
RECURSIVE DigitsAdd(_, _, _)
RECURSIVE DigitsScale(_, _, _)
RECURSIVE DigitsMul(_, _)
RECURSIVE DigitsTrim(_)
RECURSIVE TypeSizeUsize(_, _, _)
RECURSIVE Depth(_)

(***************************************************************************)
(* Bounds of the exploration.                                              *)
(***************************************************************************)
\* most type constructors (scalar, array, tuple, struct) in an array type built
\* from a described type
MaxNodes == 4
\* most fields in one explored tuple or struct
MaxFields == 3
\* the array lengths explored are 0, SmallLen and the largest implemented one
SmallLen == 2
\* most levels of a Type value built by hand
MaxDepth == 3
\* the threads that call type_info() on one type
NumThreads == 2
\* most calls of one thread, one after the other
MaxCalls == 2

(***************************************************************************)
(* Program constants.                                                      *)
(***************************************************************************)
\* impl_array! is invoked with the lengths 0x00 .. 0x3f
MaxImplArrayLen == 63
\* impl_tuple! is invoked with the sixteen parameters T0 .. T15
MaxImplTupleArity == 16
\* "0usize as *const $s": the address the macros take field addresses from
NullOrigin == 0

SeqSum(s) == IF s = <<>> THEN 0 ELSE Head(s) + SeqSum(Tail(s))

Maximum(S) == CHOOSE m \in S : \A x \in S : x <= m

(***************************************************************************)
(* The enum Type and its methods.                                          *)
(***************************************************************************)
ScalarTags ==
    {"Int8", "Int16", "Int32", "Int64", "UInt8", "UInt16", "UInt32",
     "UInt64", "Float32", "Float64", "Char", "Bool"}

RECURSIVE DescriptorSizes(_)
\* the sizes of the field descriptors fs, in order
DescriptorSizes(fs) ==
    IF fs = <<>> THEN <<>>
    ELSE <<TypeSize(Head(fs).ty)>> \o DescriptorSizes(Tail(fs))

\* Type::size with the size of a Compound or Tuple recomputed from its fields
TypeSizeSumFields(t) ==
    CASE t.tag \in {"Int8", "UInt8", "Bool"} -> 1
      [] t.tag \in {"Int16", "UInt16"} -> 2
      [] t.tag \in {"Int32", "UInt32", "Float32", "Char"} -> 4
      [] t.tag \in {"Int64", "UInt64", "Float64"} -> 8
      [] t.tag = "Array" -> TypeSize(t.ty) * t.num
      [] t.tag \in {"Compound", "Tuple"} -> SeqSum(DescriptorSizes(t.fields))

\* Type::size with the length of an Array added instead of multiplied
TypeSizeArrayAdd(t) ==
    CASE t.tag \in {"Int8", "UInt8", "Bool"} -> 1
      [] t.tag \in {"Int16", "UInt16"} -> 2
      [] t.tag \in {"Int32", "UInt32", "Float32", "Char"} -> 4
      [] t.tag \in {"Int64", "UInt64", "Float64"} -> 8
      [] t.tag = "Array" -> TypeSize(t.ty) + t.num
      [] t.tag \in {"Compound", "Tuple"} -> t.size

\* Type::size with Char counted as one byte
TypeSizeCharOne(t) ==
    CASE t.tag \in {"Int8", "UInt8", "Bool", "Char"} -> 1
      [] t.tag \in {"Int16", "UInt16"} -> 2
      [] t.tag \in {"Int32", "UInt32", "Float32"} -> 4
      [] t.tag \in {"Int64", "UInt64", "Float64"} -> 8
      [] t.tag = "Array" -> TypeSize(t.ty) * t.num
      [] t.tag \in {"Compound", "Tuple"} -> t.size

\* Type::size
TypeSize(t) ==
    CASE t.tag \in {"Int8", "UInt8", "Bool"} -> 1
      [] t.tag \in {"Int16", "UInt16"} -> 2
      [] t.tag \in {"Int32", "UInt32", "Float32", "Char"} -> 4
      [] t.tag \in {"Int64", "UInt64", "Float64"} -> 8
      [] t.tag = "Array" -> TypeSize(t.ty) * t.num
      [] t.tag \in {"Compound", "Tuple"} -> t.size

\* Type::is_array
IsArray(t) == t.tag = "Array"

\* Type::is_compound
IsCompound(t) == t.tag = "Compound"

\* Type::is_tuple
IsTuple(t) == t.tag = "Tuple"

\* Type::is_scalar without the test for a tuple
IsScalarNotTuple(t) == ~IsArray(t) /\ ~IsCompound(t)

\* Type::is_scalar
IsScalar(t) == ~IsArray(t) /\ ~IsCompound(t) /\ ~IsTuple(t)

(***************************************************************************)
(* usize arithmetic.  A usize is the sequence of the bytes of the machine  *)
(* word, least significant first; a product is computed in full, on digit  *)
(* sequences of any length, and then compared with the word.               *)
(***************************************************************************)
\* the bytes of a usize of the host h
WordBytes(h) == h.ptr \div 8

\* the natural n < 256^len as len bytes
ToUsize(n, len) ==
    IF len = 0 THEN <<>> ELSE <<n % 256>> \o ToUsize(n \div 256, len - 1)

\* usize::MAX of the host h
UsizeMax(h) == [i \in 1..WordBytes(h) |-> 255]

\* 2^(w-1) for the word width w of the host h
UsizeHalf(h) == [i \in 1..WordBytes(h) |-> IF i = WordBytes(h) THEN 128 ELSE 0]

\* a + b + c for the digit sequences a, b and the carry c
DigitsAdd(a, b, c) ==
    IF a = <<>> /\ b = <<>>
    THEN IF c = 0 THEN <<>> ELSE <<c>>
    ELSE LET x == (IF a = <<>> THEN 0 ELSE Head(a))
                  + (IF b = <<>> THEN 0 ELSE Head(b)) + c
         IN  <<x % 256>> \o DigitsAdd(IF a = <<>> THEN <<>> ELSE Tail(a),
                                      IF b = <<>> THEN <<>> ELSE Tail(b),
                                      x \div 256)

\* a * d + c for the digit sequence a, the digit d and the carry c
DigitsScale(a, d, c) ==
    IF a = <<>>
    THEN IF c = 0 THEN <<>> ELSE <<c>>
    ELSE LET x == Head(a) * d + c
         IN  <<x % 256>> \o DigitsScale(Tail(a), d, x \div 256)

\* a * b for the digit sequences a and b
DigitsMul(a, b) ==
    IF b = <<>> THEN <<>>
    ELSE DigitsAdd(DigitsScale(a, Head(b), 0), <<0>> \o DigitsMul(a, Tail(b)), 0)

\* the digit sequence a without its leading zeros: one number, one sequence
DigitsTrim(a) ==
    IF a = <<>> \/ a[Len(a)] # 0 THEN a ELSE DigitsTrim(SubSeq(a, 1, Len(a) - 1))

\* the usize product a * b: the product in full, whether it leaves the word,
\* and the word that a wrapping multiplication leaves
UsizeMul(a, b) ==
    LET p == DigitsMul(a, b)
    IN  [exact    |-> DigitsTrim(p),
         overflow |-> Len(DigitsTrim(p)) > Len(a),
         wrapped  |-> [i \in 1..Len(a) |-> IF i <= Len(p) THEN p[i] ELSE 0]]

\* Type::size on a Type value whose numbers are usize values of the host h,
\* built with overflow checks (chk, the default of a debug build: the
\* multiplication panics) or without (a release build: it wraps)
TypeSizeUsize(h, chk, t) ==
    LET word(n) == [panic |-> FALSE, val |-> ToUsize(n, WordBytes(h))]
    IN  CASE t.tag \in {"Int8", "UInt8", "Bool"} -> word(1)
          [] t.tag \in {"Int16", "UInt16"} -> word(2)
          [] t.tag \in {"Int32", "UInt32", "Float32", "Char"} -> word(4)
          [] t.tag \in {"Int64", "UInt64", "Float64"} -> word(8)
          [] t.tag = "Array" ->
               LET e == TypeSizeUsize(h, chk, t.ty)
                   m == UsizeMul(e.val, t.num)
               IN  IF e.panic THEN e
                   ELSE IF m.overflow /\ chk
                        THEN [panic |-> TRUE, val |-> ToUsize(0, WordBytes(h))]
                        ELSE [panic |-> FALSE, val |-> m.wrapped]
          [] t.tag \in {"Compound", "Tuple"} -> [panic |-> FALSE, val |-> t.size]

\* NamedField::new
NamedFieldNew(t, name, offset) == [ty |-> t, name |-> name, offset |-> offset]

\* Field::new
FieldNew(t, offset) == [ty |-> t, offset |-> offset]

(***************************************************************************)
(* The host platform: what ::std::mem::size_of and the address of a field  *)
(* of the instance at `origin` evaluate to.  A host fixes the pointer      *)
(* width (cfg(target_pointer_width)), the alignment of the 8-byte scalars  *)
(* and whether the compiler reorders the fields of a default-              *)
(* representation struct or tuple (largest alignment first, zero-sized     *)
(* fields in front); a packed struct keeps declaration order and has no    *)
(* padding.                                                                *)
(***************************************************************************)
Hosts ==
    {[ptr |-> 64, align8 |-> 8, reorder |-> FALSE],
     [ptr |-> 64, align8 |-> 8, reorder |-> TRUE],
     [ptr |-> 32, align8 |-> 4, reorder |-> FALSE],
     [ptr |-> 32, align8 |-> 8, reorder |-> TRUE]}

ScalarNames ==
    {"i8", "i16", "i32", "i64", "u8", "u16", "u32", "u64", "f32", "f64",
     "char", "bool", "isize", "usize"}

ScalarSizeOf(h, name) ==
    CASE name \in {"i8", "u8", "bool"} -> 1
      [] name \in {"i16", "u16"} -> 2
      [] name \in {"i32", "u32", "f32", "char"} -> 4
      [] name \in {"i64", "u64", "f64"} -> 8
      [] name \in {"isize", "usize"} -> h.ptr \div 8

ScalarAlignOf(h, name) ==
    IF ScalarSizeOf(h, name) = 8 THEN h.align8 ELSE ScalarSizeOf(h, name)

AlignUp(n, a) == ((n + a - 1) \div a) * a

IsPacked(t) == t.k = "struct" /\ t.packed

RECURSIVE FieldSizes(_, _)
\* the sizes of the field types tys, in declaration order
FieldSizes(h, tys) ==
    IF tys = <<>> THEN <<>>
    ELSE <<SizeOf(h, Head(tys))>> \o FieldSizes(h, Tail(tys))

RECURSIVE FieldAligns(_, _, _)
\* the alignments the field types tys get inside a struct or tuple: 1 when
\* it is packed
FieldAligns(h, packed, tys) ==
    IF tys = <<>> THEN <<>>
    ELSE <<IF packed THEN 1 ELSE AlignOf(h, Head(tys))>>
         \o FieldAligns(h, packed, Tail(tys))

\* the layout of a struct or tuple whose fields have the sizes sz and the
\* alignments al: the offset of every declared field, the size and the
\* alignment; with reorder the fields are sorted, zero-sized fields first and
\* then the largest alignment first, and else they keep declaration order
LayoutOf(reorder, sz, al) ==
    LET n == Len(sz)
        key == [i \in 1..n |-> (IF sz[i] = 0 THEN 0 ELSE 16) + (8 - al[i])]
        \* the position in memory (1 = first) of each declared field
        rank == [i \in 1..n |->
                   IF ~reorder
                   THEN i
                   ELSE 1 + Cardinality({j \in 1..n :
                                \/ key[j] < key[i]
                                \/ key[j] = key[i] /\ j < i})]
        \* the declared index of the field at each position in memory
        at == [p \in 1..n |-> CHOOSE i \in 1..n : rank[i] = p]
        start[p \in 1..n] ==
            AlignUp(IF p = 1 THEN 0 ELSE start[p - 1] + sz[at[p - 1]], al[at[p]])
        align == IF n = 0 THEN 1 ELSE Maximum({al[i] : i \in 1..n})
    IN  [offsets |-> [i \in 1..n |-> start[rank[i]]],
         size |-> AlignUp(IF n = 0 THEN 0 ELSE start[n] + sz[at[n]], align),
         align |-> align]

\* the layout the compiler gives the struct or tuple t
Layout(h, t) ==
    LayoutOf(h.reorder /\ ~IsPacked(t), FieldSizes(h, t.tys),
             FieldAligns(h, IsPacked(t), t.tys))

\* the byte offset of the i-th declared field of the struct or tuple t
OffsetOf(h, t, i) == Layout(h, t).offsets[i]

\* ::std::mem::align_of
AlignOf(h, t) ==
    CASE t.k = "scalar" -> ScalarAlignOf(h, t.name)
      [] t.k = "array" -> AlignOf(h, t.elem)
      [] t.k \in {"tuple", "struct"} -> Layout(h, t).align

\* ::std::mem::size_of
SizeOf(h, t) ==
    CASE t.k = "scalar" -> ScalarSizeOf(h, t.name)
      [] t.k = "array" -> SizeOf(h, t.elem) * t.len
      [] t.k \in {"tuple", "struct"} -> Layout(h, t).size

\* "&((*origin).field) as *const _ as usize": the address of the i-th
\* declared field of the instance of t at address origin
FieldAddr(h, t, origin, i) == origin + OffsetOf(h, t, i)


(***************************************************************************)
(* The TypeInfo implementations.                                           *)
(***************************************************************************)
\* impl_scalar!(t, Tag), the pointer-sized ones under cfg(target_pointer_width)
ImplScalar(h, name) ==
    CASE name = "i8" -> [tag |-> "Int8"]
      [] name = "i16" -> [tag |-> "Int16"]
      [] name = "i32" -> [tag |-> "Int32"]
      [] name = "i64" -> [tag |-> "Int64"]
      [] name = "u8" -> [tag |-> "UInt8"]
      [] name = "u16" -> [tag |-> "UInt16"]
      [] name = "u32" -> [tag |-> "UInt32"]
      [] name = "u64" -> [tag |-> "UInt64"]
      [] name = "f32" -> [tag |-> "Float32"]
      [] name = "f64" -> [tag |-> "Float64"]
      [] name = "char" -> [tag |-> "Char"]
      [] name = "bool" -> [tag |-> "Bool"]
      [] name = "isize" -> IF h.ptr = 32 THEN [tag |-> "Int32"] ELSE [tag |-> "Int64"]
      [] name = "usize" -> IF h.ptr = 32 THEN [tag |-> "UInt32"] ELSE [tag |-> "UInt64"]

\* the lengths impl_array! is invoked with
ImplArrayLens == 0..MaxImplArrayLen

\* impl_array!: type_info of [T; n]
ImplArray(h, t) == [tag |-> "Array", ty |-> TypeInfo(h, t.elem), num |-> t.len]

\* @parse_tuple_fields with the pattern S(ref f, ..): f is always the first
\* field
ParseTupleFieldsFirst(h, t, origin, fields, rest) ==
    IF rest = <<>>
    THEN fields
    ELSE LET f == FieldAddr(h, t, origin, 1)
         IN  ParseTupleFields(h, t, origin,
                 Append(fields, FieldNew(TypeInfo(h, Head(rest)), f)),
                 Tail(rest))

\* @parse_tuple_fields with each field put in front of those found before
ParseTupleFieldsReversed(h, t, origin, fields, rest) ==
    IF rest = <<>>
    THEN fields
    ELSE LET f == FieldAddr(h, t, origin, Len(t.tys) - Len(Tail(rest)))
         IN  ParseTupleFields(h, t, origin,
                 <<FieldNew(TypeInfo(h, Head(rest)), f)>> \o fields,
                 Tail(rest))

\* def!(@parse_tuple_fields [S] origin fields | t, tt..): the pattern
\* S(.., ref f, _, .., _) has one _ per type of tt, so f is the field that
\* many places before the end of the struct or tuple t; the field of type
\* Head(rest) and address f is pushed and the macro recurses on tt
ParseTupleFields(h, t, origin, fields, rest) ==
    IF rest = <<>>
    THEN fields
    ELSE LET f == FieldAddr(h, t, origin, Len(t.tys) - Len(Tail(rest)))
         IN  ParseTupleFields(h, t, origin,
                 Append(fields, FieldNew(TypeInfo(h, Head(rest)), f)),
                 Tail(rest))

\* impl_tuple! with the total size summed from the fields' descriptors
ImplTupleSummed(h, t) ==
    LET fields == IF Len(t.tys) = 1
                  THEN <<FieldNew(TypeInfo(h, t.tys[1]), FieldAddr(h, t, NullOrigin, 1))>>
                  ELSE ParseTupleFields(h, t, NullOrigin, <<>>, t.tys)
    IN  [tag |-> "Tuple", fields |-> fields,
         size |-> SeqSum(DescriptorSizes(fields))]

\* impl_tuple!: type_info of (), of (T,) and of (T, TT..)
ImplTuple(h, t) ==
    CASE Len(t.tys) = 0 -> [tag |-> "Tuple", fields |-> <<>>, size |-> SizeOf(h, t)]
      [] Len(t.tys) = 1 ->
           [tag |-> "Tuple",
            fields |-> <<FieldNew(TypeInfo(h, t.tys[1]), FieldAddr(h, t, NullOrigin, 1))>>,
            size |-> SizeOf(h, t)]
      [] OTHER ->
           [tag |-> "Tuple",
            fields |-> ParseTupleFields(h, t, NullOrigin, <<>>, t.tys),
            size |-> SizeOf(h, t)]

\* @impl_struct with the total size summed from the fields' descriptors
DefImplStructSummed(h, t) ==
    LET fields == [i \in 1..Len(t.tys) |->
                     NamedFieldNew(TypeInfo(h, t.tys[i]), t.names[i],
                                   FieldAddr(h, t, NullOrigin, i))]
    IN  [tag |-> "Compound", fields |-> fields,
         size |-> SeqSum(DescriptorSizes(fields))]

\* def!(@impl_struct S { i: t, .. })
DefImplStruct(h, t) ==
    [tag |-> "Compound",
     fields |-> [i \in 1..Len(t.tys) |->
                   NamedFieldNew(TypeInfo(h, t.tys[i]), t.names[i],
                                 FieldAddr(h, t, NullOrigin, i))],
     size |-> SizeOf(h, t)]

\* @impl_tuple with the total size summed from the fields' descriptors
DefImplTupleSummed(h, t) ==
    LET fields == ParseTupleFields(h, t, NullOrigin, <<>>, t.tys)
    IN  [tag |-> "Tuple", fields |-> fields,
         size |-> SeqSum(DescriptorSizes(fields))]

\* def!(@impl_tuple S t, ..)
DefImplTuple(h, t) ==
    [tag |-> "Tuple",
     fields |-> ParseTupleFields(h, t, NullOrigin, <<>>, t.tys),
     size |-> SizeOf(h, t)]

\* the arm of def! (1..10, in source order) that matches one struct
\* declaration of the given shape, visibility and field count; 0 when no
\* arm matches and the invocation does not compile
DefArm(shape, pubS, pubF, n) ==
    CASE shape = "unit" -> IF pubS THEN 2 ELSE 1
      [] shape = "named" /\ n > 0 /\ ~pubS /\ ~pubF -> 3
      [] shape = "named" /\ n > 0 /\ pubS /\ ~pubF -> 4
      [] shape = "named" /\ n > 0 /\ pubS /\ pubF -> 5
      [] shape = "tuple" /\ n > 0 /\ ~pubS /\ ~pubF -> 6
      [] shape = "tuple" /\ n > 0 /\ pubS /\ pubF -> 7
      [] shape = "tuple" /\ n > 0 /\ pubS /\ ~pubF -> 8
      [] shape = "tuple" /\ n = 0 -> IF pubS THEN 10 ELSE 9
      [] OTHER -> 0

\* the arms of the unit tuple struct sent to @impl_struct like the arms of
\* the unit struct
DefArmImplUnitAsStruct(arm) ==
    CASE arm \in 1..5 \/ arm \in 9..10 -> "impl_struct"
      [] arm \in 6..8 -> "impl_tuple"
      [] OTHER -> "none"

\* the internal rule the arm's expansion invokes
DefArmImpl(arm) ==
    CASE arm \in 1..5 -> "impl_struct"
      [] arm \in 6..10 -> "impl_tuple"
      [] OTHER -> "none"

\* type_info_impl: the body the derive generates for a struct of the shape
\* (syn's VariantData::Unit, ::Struct, ::Tuple); the Tuple arm is
\* unimplemented!() and panics
DeriveBody(shape) ==
    CASE shape = "unit" -> "unit"
      [] shape = "named" -> "struct"
      [] shape = "tuple" -> "panic"

\* the type_info the derive generates: ty_size and origin, then the body
DeriveTypeInfo(h, t) ==
    LET ty_size == SizeOf(h, t)
        origin == NullOrigin
    IN  IF DeriveBody(t.shape) = "unit"
        THEN [tag |-> "Compound", fields |-> <<>>, size |-> ty_size]
        ELSE [tag |-> "Compound",
              fields |-> [i \in 1..Len(t.tys) |->
                            NamedFieldNew(TypeInfo(h, t.tys[i]), t.names[i],
                                          FieldAddr(h, t, origin, i))],
              size |-> ty_size]

\* the expansion of the matching arm of def!
DefTypeInfo(h, arm, t) ==
    CASE DefArmImpl(arm) = "impl_struct" -> DefImplStruct(h, t)
      [] DefArmImpl(arm) = "impl_tuple" -> DefImplTuple(h, t)

\* <T as TypeInfo>::type_info(): the implementation registered for T; a
\* struct used as an element or field type is one declared through def!
TypeInfo(h, t) ==
    CASE t.k = "scalar" -> ImplScalar(h, t.name)
      [] t.k = "array" -> ImplArray(h, t)
      [] t.k = "tuple" -> ImplTuple(h, t)
      [] t.k = "struct" ->
           DefTypeInfo(h, DefArm(t.shape, FALSE, FALSE, Len(t.tys)), t)

(***************************************************************************)
(* The explored types and declarations.                                    *)
(***************************************************************************)
NoType == [k |-> "none"]
NoInfo == [tag |-> "None"]
\* no method of Type has been called on the value
NoOutcome == [method |-> "none"]

Scalar(name) == [k |-> "scalar", name |-> name]

FieldNames == <<"a", "b", "c", "d", "e", "f", "g", "h">>

Struct(shape, packed, fs) ==
    [k |-> "struct", shape |-> shape, packed |-> packed,
     names |-> SubSeq(FieldNames, 1, Len(fs)), tys |-> fs]

\* the crate documentation's struct Color { r: u16, g: u16, b: u16 }
Color ==
    [k |-> "struct", shape |-> "named", packed |-> FALSE,
     names |-> <<"r", "g", "b">>,
     tys |-> <<Scalar("u16"), Scalar("u16"), Scalar("u16")>>]

\* the field types of the explored declarations: a 1-byte and an 8-byte
\* scalar, the zero-sized (), a record and the documentation's [Color; 16]
FieldTypes ==
    {Scalar("bool"), Scalar("u64"), [k |-> "tuple", tys |-> <<>>], Color,
     [k |-> "array", elem |-> Color, len |-> 16]}

FieldLists == UNION {[1..n -> FieldTypes] : n \in 0..MaxFields}

Nodes(t) ==
    CASE t.k = "scalar" -> 1
      [] t.k = "array" -> 1 + Nodes(t.elem)
      [] t.k \in {"tuple", "struct"} ->
           1 + SeqSum([i \in 1..Len(t.tys) |-> Nodes(t.tys[i])])

\* the explored struct declarations: unit, named and positional, under the
\* default and the packed representation
Declarations ==
    {Struct("unit", p, <<>>) : p \in BOOLEAN}
    \cup {Struct("named", p, fs) : p \in BOOLEAN, fs \in FieldLists \ {<<>>}}
    \cup {Struct("tuple", p, fs) : p \in BOOLEAN, fs \in FieldLists}

\* the new type t is described by operation o: i is its descriptor, or NoInfo
\* when st says that no implementation was generated; pt and pi are the type
\* it was built from and that type's descriptor
Describe(t, i, st, o, pt, pi) ==
    /\ ty' = t
    /\ info' = i
    /\ status' = st
    /\ op' = o
    /\ prevTy' = pt
    /\ prevInfo' = pi
    /\ UNCHANGED <<host, checks, value, outcome, calls, heap>>

(***************************************************************************)
(* Actions: one per way of obtaining a TypeInfo implementation and calling *)
(* its type_info().                                                        *)
(***************************************************************************)
NoDerivation ==
    /\ ty = NoType
    /\ info = NoInfo
    /\ status = "none"
    /\ op = "init"
    /\ prevTy = NoType
    /\ prevInfo = NoInfo

NoValue ==
    /\ checks = FALSE
    /\ value = NoInfo
    /\ outcome = NoOutcome

\* the threads, and a thread that is not in a call of type_info()
Threads == 1..NumThreads
Idle == [pc |-> "idle", fields |-> <<>>, arg |-> 0, rets |-> <<>>]

NoCalls ==
    /\ calls = [t \in Threads |-> Idle]
    /\ heap = <<>>

Init ==
    /\ host \in Hosts
    /\ NoDerivation
    /\ NoValue
    /\ NoCalls

\* <s as TypeInfo>::type_info() for a built-in scalar s
ScalarTypeInfo ==
    /\ status = "none"
    /\ \E s \in ScalarNames :
         Describe(Scalar(s), TypeInfo(host, Scalar(s)), "ok", "scalar",
                  NoType, NoInfo)

\* <[T; n] as TypeInfo>::type_info() for the type T described last
ArrayTypeInfo ==
    /\ status = "ok"
    /\ Nodes(ty) < MaxNodes
    /\ \E n \in {0, SmallLen, MaxImplArrayLen} :
         /\ n \in ImplArrayLens
         /\ LET t == [k |-> "array", elem |-> ty, len |-> n]
            IN  Describe(t, TypeInfo(host, t), "ok", "array", ty, info)

\* <(T, ..) as TypeInfo>::type_info() for a built-in tuple
TupleTypeInfo ==
    /\ status = "none"
    /\ \E fs \in FieldLists :
         LET t == [k |-> "tuple", tys |-> fs]
         IN  /\ Len(fs) <= MaxImplTupleArity
             /\ Describe(t, TypeInfo(host, t), "ok", "tuple", NoType, NoInfo)

\* def! { struct S .. } for the declaration t, and then S::type_info()
DefDescribe(t, pubS, pubF, pt, pi) ==
    LET arm == DefArm(t.shape, pubS, pubF, Len(t.tys))
    IN  IF arm = 0
        THEN Describe(t, NoInfo, "no_rule", "def", pt, pi)
        ELSE Describe(t, DefTypeInfo(host, arm, t), "ok", "def", pt, pi)

\* def! on a fresh declaration
Def ==
    /\ status = "none"
    /\ \E t \in Declarations, pubS \in BOOLEAN, pubF \in BOOLEAN :
         DefDescribe(t, pubS, pubF, NoType, NoInfo)

\* def! on the declaration described last, with #[repr(packed)] added or
\* removed
DefOtherRepr ==
    /\ status = "ok"
    /\ op = "def"
    /\ prevTy = NoType
    /\ \E pubS \in BOOLEAN, pubF \in BOOLEAN :
         DefDescribe([ty EXCEPT !.packed = ~ty.packed], pubS, pubF, ty, info)

\* #[derive(TypeInfo)] struct S .. and then S::type_info()
Derive ==
    /\ status = "none"
    /\ \E t \in Declarations :
         IF DeriveBody(t.shape) = "panic"
         THEN Describe(t, NoInfo, "panic", "derive", NoType, NoInfo)
         ELSE Describe(t, DeriveTypeInfo(host, t), "ok", "derive", NoType, NoInfo)

Next ==
    \/ ScalarTypeInfo
    \/ ArrayTypeInfo
    \/ TupleTypeInfo
    \/ Def
    \/ DefOtherRepr
    \/ Derive

Spec == Init /\ [][Next]_vars

(***************************************************************************)
(* Type values built by hand.  The variants and the fields of Type, Field  *)
(* and NamedField are public, so a caller can build any value, with any    *)
(* usize as length, size and offset, and call the methods of Type on it.   *)
(***************************************************************************)
\* the levels of the Type value v
Depth(v) ==
    CASE v.tag = "Array" -> 1 + Depth(v.ty)
      [] v.tag \in {"Compound", "Tuple"} ->
           1 + Maximum({0} \cup {Depth(v.fields[i].ty) : i \in DOMAIN v.fields})
      [] OTHER -> 1

\* the usize values explored as length of an array and as size of a record
HandNumbers(h) ==
    {ToUsize(0, WordBytes(h)), ToUsize(SmallLen, WordBytes(h)),
     UsizeHalf(h), UsizeMax(h)}

\* a new value v: no method has been called on it
Build(v) ==
    /\ value' = v
    /\ outcome' = NoOutcome
    /\ UNCHANGED <<host, ty, info, status, op, prevTy, prevInfo, checks, calls, heap>>

\* Type::Int8 .. Type::Bool
NewScalar ==
    /\ value = NoInfo \/ outcome # NoOutcome
    /\ \E tag \in ScalarTags : Build([tag |-> tag])

\* Type::Array(Box::new(value), n)
NewArray ==
    /\ value # NoInfo
    /\ Depth(value) < MaxDepth
    /\ \E n \in HandNumbers(host) :
         Build([tag |-> "Array", ty |-> value, num |-> n])

\* Type::Compound(vec![], size) or
\* Type::Compound(vec![NamedField::new(&value, "a", 0)], size)
NewCompound ==
    /\ value # NoInfo => Depth(value) < MaxDepth
    /\ \E size \in HandNumbers(host), n \in 0..1 :
         /\ n = 1 => value # NoInfo
         /\ Build([tag |-> "Compound",
                   fields |-> [i \in 1..n |->
                       NamedFieldNew(value, FieldNames[i],
                                     ToUsize(0, WordBytes(host)))],
                   size |-> size])

\* Type::Tuple(vec![], size) or Type::Tuple(vec![Field::new(&value, 0)], size)
NewTuple ==
    /\ value # NoInfo => Depth(value) < MaxDepth
    /\ \E size \in HandNumbers(host), n \in 0..1 :
         /\ n = 1 => value # NoInfo
         /\ Build([tag |-> "Tuple",
                   fields |-> [i \in 1..n |->
                       FieldNew(value, ToUsize(0, WordBytes(host)))],
                   size |-> size])

\* value.size()
CallSize ==
    /\ value # NoInfo
    /\ outcome = NoOutcome
    /\ outcome' = [method |-> "size",
                   ret |-> TypeSizeUsize(host, checks, value)]
    /\ UNCHANGED <<host, ty, info, status, op, prevTy, prevInfo, checks, value,
                   calls, heap>>

\* value.is_scalar(), value.is_array(), value.is_tuple(), value.is_compound()
CallIs ==
    /\ value # NoInfo
    /\ outcome = NoOutcome
    /\ outcome' = [method |-> "is",
                   is_scalar |-> IsScalar(value),
                   is_array |-> IsArray(value),
                   is_tuple |-> IsTuple(value),
                   is_compound |-> IsCompound(value)]
    /\ UNCHANGED <<host, ty, info, status, op, prevTy, prevInfo, checks, value,
                   calls, heap>>

ValueInit ==
    /\ host \in Hosts
    /\ NoDerivation
    /\ checks \in BOOLEAN
    /\ value = NoInfo
    /\ outcome = NoOutcome
    /\ NoCalls

ValueNext ==
    \/ NewScalar
    \/ NewArray
    \/ NewCompound
    \/ NewTuple
    \/ CallSize
    \/ CallIs

ValueSpec == ValueInit /\ [][ValueNext]_vars

(***************************************************************************)
(* Calls of type_info() on one type from several threads.  A call runs the *)
(* statements of the generated function one by one: the vector of fields   *)
(* is created, then for each field the descriptor of the field type is     *)
(* built as a temporary, Field::new or NamedField::new is called with a    *)
(* reference to it, the temporary is dropped, and at the end the           *)
(* descriptor is returned.  heap holds the Type values that are alive      *)
(* outside the vector of a call, each with the thread that built it;       *)
(* calls[t].arg is the temporary of thread t and calls[t].rets are the     *)
(* descriptors its calls returned, which the caller keeps.                 *)
(***************************************************************************)
\* the types type_info() is called on: built-in tuples and structs given to
\* def!
CallFieldLists ==
    UNION {[1..n -> {Scalar("bool"), Scalar("u64"), Color}] : n \in 0..SmallLen}

CallTypes ==
    {[k |-> "tuple", tys |-> fs] : fs \in CallFieldLists}
    \cup {Struct("tuple", FALSE, fs) : fs \in CallFieldLists}
    \cup {Struct("named", FALSE, fs) : fs \in CallFieldLists \ {<<>>}}
    \cup {Struct("unit", FALSE, <<>>)}

\* the generated function builds a Type::Compound (@impl_struct) and not a
\* Type::Tuple (@impl_tuple, impl_tuple!)
BuildsCompound(t) ==
    /\ t.k = "struct"
    /\ DefArmImpl(DefArm(t.shape, FALSE, FALSE, Len(t.tys))) = "impl_struct"

\* an address that holds no value of the heap hp
Alloc(hp) ==
    CHOOSE id \in 1..(Cardinality(DOMAIN hp) + 1) : id \notin DOMAIN hp

\* the heap hp with the value v, built by thread t, at the address id
Store(hp, id, t, v) ==
    [x \in DOMAIN hp \cup {id} |-> IF x = id THEN [owner |-> t, val |-> v] ELSE hp[x]]

\* the heap hp without the value at the address id
Drop(hp, id) == [x \in DOMAIN hp \ {id} |-> hp[x]]

\* Field::new(&ty, offset) with ty at the address arg, where Field::new takes
\* the value out of ty instead of cloning it
FieldNewTaking(hp, arg, offset) ==
    [field |-> FieldNew(hp[arg].val, offset),
     heap  |-> [hp EXCEPT ![arg].val = NoInfo]]

\* Field::new(&ty, offset) with ty at the address arg: the field holds a clone
\* of ty, and ty, behind a shared reference, stays as it is
FieldNewAt(hp, arg, offset) ==
    [field |-> FieldNew(hp[arg].val, offset), heap |-> hp]

\* NamedField::new(&ty, name, offset) with ty at the address arg
NamedFieldNewAt(hp, arg, name, offset) ==
    [field |-> NamedFieldNew(hp[arg].val, name, offset), heap |-> hp]

\* thread t moves to c, with the heap hp
Step(t, c, hp) ==
    /\ calls' = [calls EXCEPT ![t] = c]
    /\ heap' = hp
    /\ UNCHANGED <<host, ty, info, status, op, prevTy, prevInfo,
                   checks, value, outcome>>

\* after the statement of a field: the next field, or the return
AfterField(n) == IF n < Len(ty.tys) THEN "inner" ELSE "return"

\* thread t calls type_info(): "let mut fields = Vec::new()" or "vec![.."
Begin(t) ==
    /\ calls[t].pc = "idle"
    /\ Len(calls[t].rets) < MaxCalls
    /\ Step(t, [calls[t] EXCEPT !.pc = AfterField(0), !.fields = <<>>], heap)

\* "&<$t as TypeInfo>::type_info()": the descriptor of the type of the next
\* field, a temporary of thread t
Inner(t) ==
    /\ calls[t].pc = "inner"
    /\ LET i == Len(calls[t].fields) + 1
           id == Alloc(heap)
       IN  Step(t, [calls[t] EXCEPT !.pc = "new", !.arg = id],
                Store(heap, id, t, TypeInfo(host, ty.tys[i])))

\* "fields.push(Field::new(&.., f as *const _ as usize))", or
\* "NamedField::new(&.., stringify!($i), ..)" as the next element of vec![..]
New(t) ==
    /\ calls[t].pc = "new"
    /\ LET i == Len(calls[t].fields) + 1
           offset == FieldAddr(host, ty, NullOrigin, i)
           r == IF BuildsCompound(ty)
                THEN NamedFieldNewAt(heap, calls[t].arg, ty.names[i], offset)
                ELSE FieldNewAt(heap, calls[t].arg, offset)
       IN  Step(t, [calls[t] EXCEPT !.pc = "drop",
                                    !.fields = Append(@, r.field)],
                r.heap)

\* the end of the statement: the temporary is dropped
DropTemporary(t) ==
    /\ calls[t].pc = "drop"
    /\ Step(t, [calls[t] EXCEPT !.pc = AfterField(Len(calls[t].fields)),
                                !.arg = 0],
            Drop(heap, calls[t].arg))

\* "Type::Tuple(fields, size_of::<$s>())" or "Type::Compound(vec![..], ..)":
\* the call returns the descriptor, and the caller keeps it
Return(t) ==
    /\ calls[t].pc = "return"
    /\ LET id == Alloc(heap)
           v == [tag    |-> IF BuildsCompound(ty) THEN "Compound" ELSE "Tuple",
                 fields |-> calls[t].fields,
                 size   |-> SizeOf(host, ty)]
       IN  Step(t, [calls[t] EXCEPT !.pc = "idle", !.fields = <<>>,
                                    !.rets = Append(@, id)],
                Store(heap, id, t, v))

CallInit ==
    /\ host \in Hosts
    /\ ty \in CallTypes
    /\ info = NoInfo
    /\ status = "none"
    /\ op = "init"
    /\ prevTy = NoType
    /\ prevInfo = NoInfo
    /\ NoValue
    /\ NoCalls

CallNext ==
    \E t \in Threads :
        \/ Begin(t)
        \/ Inner(t)
        \/ New(t)
        \/ DropTemporary(t)
        \/ Return(t)

CallSpec == CallInit /\ [][CallNext]_vars

(***************************************************************************)
(* Properties.                                                             *)
(***************************************************************************)
\* a descriptor of a tuple or of a struct has been derived
Derived == status = "ok" /\ ty.k \in {"tuple", "struct"}

\* the sum of the platform sizes of the fields of the type described
FieldSizeSum == SeqSum(FieldSizes(host, ty.tys))

\* C1: the total_size stored in a derived Compound or Tuple, and so size()
\* of it, is the platform's size of the type, with 0, 1 or many fields and
\* under either representation; it is not the sum of the field sizes when
\* the two differ.
C1_TotalSizeIsPlatformSize ==
    Derived =>
        /\ info.size = SizeOf(host, ty)
        /\ TypeSize(info) = SizeOf(host, ty)
        /\ FieldSizeSum # SizeOf(host, ty) => TypeSize(info) # FieldSizeSum

\* a built-in tuple of several fields whose size is not the sum of its
\* field sizes has been described
C1_Witness ==
    /\ Derived
    /\ op = "tuple"
    /\ Len(ty.tys) > 1
    /\ FieldSizeSum # SizeOf(host, ty)
    /\ TypeSize(info) = SizeOf(host, ty)

\* C2: under the packed representation the offset of the i-th field is the
\* sum of size() of the descriptors of the fields before it.
C2_PackedOffsetsAreRunningSums ==
    (Derived /\ IsPacked(ty)) =>
        \A i \in 1..Len(info.fields) :
            info.fields[i].offset =
                SeqSum(DescriptorSizes(SubSeq(info.fields, 1, i - 1)))

\* the documentation's Palette: packed { bool, [Color; 16] } has the offsets
\* 0 and 1 and the size 97
C2_Witness ==
    /\ Derived
    /\ IsPacked(ty)
    /\ ty.tys = <<Scalar("bool"), [k |-> "array", elem |-> Color, len |-> 16]>>
    /\ info.fields[1].offset = 0
    /\ info.fields[2].offset = 1
    /\ TypeSize(info) = 97

\* C3 as stated: every field offset of a derived descriptor lies in
\* [0, total_size), zero-sized types included.
C3_OffsetBelowTotalSize ==
    Derived =>
        \A i \in 1..Len(info.fields) :
            0 <= info.fields[i].offset /\ info.fields[i].offset < TypeSize(info)

\* C3 as amended: every field offset lies in [0, total_size], and below
\* total_size when the field's type has a size other than zero.
C3_OffsetWithinTotalSize ==
    Derived =>
        \A i \in 1..Len(info.fields) :
            /\ 0 <= info.fields[i].offset
            /\ info.fields[i].offset <= TypeSize(info)
            /\ TypeSize(info.fields[i].ty) > 0 =>
                   info.fields[i].offset < TypeSize(info)

\* a type of several bytes with a zero-sized field at its very end has been
\* described
C3_Witness ==
    /\ Derived
    /\ TypeSize(info) > 0
    /\ \E i \in 1..Len(info.fields) :
           /\ TypeSize(info.fields[i].ty) = 0
           /\ info.fields[i].offset = TypeSize(info)

\* C4: under the default representation every field of a derived descriptor
\* ends within the type: offset + field.ty.size() <= total_size.
C4_DefaultFieldsEndWithinTotalSize ==
    (Derived /\ ~IsPacked(ty)) =>
        \A i \in 1..Len(info.fields) :
            info.fields[i].offset + TypeSize(info.fields[i].ty) <= TypeSize(info)

\* a positional struct under the default representation with padding before
\* a field that ends exactly at the total size has been described
C4_Witness ==
    /\ Derived
    /\ op = "def"
    /\ ty.shape = "tuple"
    /\ ~IsPacked(ty)
    /\ FieldSizeSum < TypeSize(info)
    /\ \E i \in 1..Len(info.fields) :
           /\ info.fields[i].offset > 0
           /\ info.fields[i].offset + TypeSize(info.fields[i].ty) = TypeSize(info)

\* the descriptors of the packed and of the default declaration of the same
\* fields, once def! has described both
BothReprs == op = "def" /\ status = "ok" /\ prevTy # NoType
PackedInfo == IF ty.packed THEN info ELSE prevInfo
DefaultInfo == IF ty.packed THEN prevInfo ELSE info

\* C5: for the same field list, size() of the packed record is at most
\* size() of the default record, and smaller when the default layout needs
\* padding.
C5_PackedSizeAtMostDefaultSize ==
    BothReprs =>
        /\ TypeSize(PackedInfo) <= TypeSize(DefaultInfo)
        /\ SizeOf(host, [ty EXCEPT !.packed = FALSE]) > FieldSizeSum =>
               TypeSize(PackedInfo) < TypeSize(DefaultInfo)

\* { a: bool, b: u64 } has been described under both representations: 9
\* bytes when packed, more by default
C5_Witness ==
    /\ BothReprs
    /\ ty.shape = "named"
    /\ ty.tys = <<Scalar("bool"), Scalar("u64")>>
    /\ TypeSize(PackedInfo) = 9
    /\ TypeSize(DefaultInfo) > 9

\* C6: a derived descriptor has one entry per declared field, in
\* declaration order, whose type is the descriptor of the declared field
\* type (with the declared name in a Compound), so that a field of type
\* [X; n] yields Array(describe(X), n).
C6_FieldsInDeclarationOrder ==
    Derived =>
        /\ Len(info.fields) = Len(ty.tys)
        /\ \A i \in 1..Len(ty.tys) :
               /\ info.fields[i].ty = TypeInfo(host, ty.tys[i])
               /\ IsCompound(info) => info.fields[i].name = ty.names[i]
               /\ ty.tys[i].k = "array" =>
                      /\ IsArray(info.fields[i].ty)
                      /\ info.fields[i].ty.ty = TypeInfo(host, ty.tys[i].elem)
                      /\ info.fields[i].ty.num = ty.tys[i].len

\* a positional struct of three fields of different types, the last an array
\* of records, has been described through @parse_tuple_fields
C6_Witness ==
    /\ Derived
    /\ op = "def"
    /\ ty.shape = "tuple"
    /\ Len(ty.tys) = 3
    /\ ty.tys[1] = Scalar("bool")
    /\ ty.tys[2] = Scalar("u64")
    /\ ty.tys[3].k = "array"
    /\ info.fields[3].ty.ty = TypeInfo(host, Color)

\* C7: type_info() of [E; N] is Array(type_info(E), N) and its size() is
\* size(E) * N, for N = 0 and for arrays of arrays too.
C7_ArrayComposition ==
    op = "array" =>
        /\ status = "ok"
        /\ IsArray(info)
        /\ info = [tag |-> "Array", ty |-> prevInfo, num |-> ty.len]
        /\ TypeSize(info) = TypeSize(prevInfo) * ty.len
        /\ ty.len = 0 => TypeSize(info) = 0

\* an array of arrays of a type of several bytes has been described
C7_Witness ==
    /\ op = "array"
    /\ ty.elem.k = "array"
    /\ ty.len = MaxImplArrayLen
    /\ ty.elem.len = SmallLen
    /\ TypeSize(TypeInfo(host, ty.elem.elem)) > 1
    /\ TypeSize(info) = TypeSize(TypeInfo(host, ty.elem.elem)) * SmallLen * MaxImplArrayLen

\* the scalar kind of each built-in scalar type on a host with pointers of
\* the given width
ScalarKind(name, ptr) ==
    CASE name = "i8" -> "Int8"
      [] name = "i16" -> "Int16"
      [] name = "i32" \/ (name = "isize" /\ ptr = 32) -> "Int32"
      [] name = "i64" \/ (name = "isize" /\ ptr = 64) -> "Int64"
      [] name = "u8" -> "UInt8"
      [] name = "u16" -> "UInt16"
      [] name = "u32" \/ (name = "usize" /\ ptr = 32) -> "UInt32"
      [] name = "u64" \/ (name = "usize" /\ ptr = 64) -> "UInt64"
      [] name = "f32" -> "Float32"
      [] name = "f64" -> "Float64"
      [] name = "bool" -> "Bool"
      [] name = "char" -> "Char"

C9_VariantByShape ==
    Derived =>
        /\ (ty.k = "struct" /\ ty.shape \in {"named", "unit"}) => IsCompound(info)
        /\ (ty.k = "struct" /\ ty.shape = "tuple") => IsTuple(info)
        /\ ty.k = "tuple" => IsTuple(info)
        /\ Len(ty.tys) = 0 =>
               info.fields = <<>> /\ info.size = SizeOf(host, ty)

\* the positional struct without fields, S(), has been described through
\* def!: Tuple([], 0)
C9_Witness ==
    /\ Derived
    /\ op = "def"
    /\ ty.k = "struct"
    /\ ty.shape = "tuple"
    /\ ty.tys = <<>>
    /\ info = [tag |-> "Tuple", fields |-> <<>>, size |-> 0]

\* C10: for a declaration of each of the four shapes, def! and the derive
\* both generate type_info() without failing, and the descriptor is the one
\* def! gives the private form of the declaration.  (A form that no arm of
\* def! accepts, a private struct with public fields, is not counted.)
C10_BothGeneratorsSupportAllShapes ==
    (op \in {"def", "derive"} /\ status # "no_rule") =>
        /\ status = "ok"
        /\ info = TypeInfo(host, ty)


\* C11: size() returns without failure on every Type value, also one built by
\* hand with any usize as array length and any nesting; for Array(e, n) the
\* result is the product e.size() * n, for Tuple and Compound it is the stored
\* size whatever the field list is.
C11_SizeIsTotal ==
    outcome.method = "size" =>
        /\ ~outcome.ret.panic
        /\ value.tag = "Array" =>
              LET e == TypeSizeUsize(host, checks, value.ty)
              IN  /\ ~e.panic
                  /\ DigitsTrim(outcome.ret.val) = UsizeMul(e.val, value.num).exact
        /\ value.tag \in {"Compound", "Tuple"} => outcome.ret.val = value.size

\* C12: on every Type value exactly one of is_scalar(), is_array(),
\* is_tuple(), is_compound() is true, and is_scalar() is true exactly for the
\* twelve variants without payload.
C12_ExactlyOneClassification ==
    outcome.method = "is" =>
        /\ Cardinality({m \in {"is_scalar", "is_array", "is_tuple", "is_compound"} :
                            outcome[m]}) = 1
        /\ outcome.is_scalar <=> value.tag \in ScalarTags
        /\ Cardinality(ScalarTags) = 12

\* the four methods were called on a tuple built by hand that holds an array
C12_Witness ==
    /\ outcome.method = "is"
    /\ value.tag = "Tuple"
    /\ Len(value.fields) = 1
    /\ value.fields[1].ty.tag = "Array"
    /\ outcome.is_tuple
    /\ ~outcome.is_scalar

\* the addresses thread t holds: its temporary and the descriptors it got
Held(t) ==
    {calls[t].rets[i] : i \in DOMAIN calls[t].rets}
    \cup (IF calls[t].pc \in {"new", "drop"} THEN {calls[t].arg} ELSE {})

\* every descriptor returned so far is the descriptor of the type, any two of
\* them are equal values at different addresses, every thread holds only
\* values it built itself, and the descriptor handed to Field::new or
\* NamedField::new is the one of the field type before and after the call,
\* with an equal value in the new field
CallsAgree ==
    /\ \A t \in Threads : \A id \in Held(t) :
          id \in DOMAIN heap /\ heap[id].owner = t
    /\ \A t, u \in Threads : t # u => Held(t) \cap Held(u) = {}
    /\ \A t \in Threads :
          /\ Cardinality(Held(t) \ {calls[t].arg}) = Len(calls[t].rets)
          /\ \A i \in DOMAIN calls[t].rets :
                heap[calls[t].rets[i]].val = TypeInfo(host, ty)
    /\ \A t, u \in Threads :
          \A i \in DOMAIN calls[t].rets, j \in DOMAIN calls[u].rets :
              heap[calls[t].rets[i]].val = heap[calls[u].rets[j]].val
    /\ \A t \in Threads :
          /\ calls[t].pc = "new" =>
                heap[calls[t].arg].val
                    = TypeInfo(host, ty.tys[Len(calls[t].fields) + 1])
          /\ calls[t].pc = "drop" =>
                LET n == Len(calls[t].fields)
                IN  /\ heap[calls[t].arg].val = TypeInfo(host, ty.tys[n])
                    /\ calls[t].fields[n].ty = heap[calls[t].arg].val

\* a step of one call leaves the other calls and every value built by
\* another thread as they are
NoInterference ==
    \A t \in Threads :
        calls'[t] # calls[t] =>
            /\ \A u \in Threads \ {t} : calls'[u] = calls[u]
            /\ \A id \in DOMAIN heap :
                  heap[id].owner # t =>
                      id \in DOMAIN heap' /\ heap'[id] = heap[id]

\* C13: type_info() is a pure function of the type: any two calls on one
\* type, one after the other or interleaved from several threads, return equal
\* descriptors, each a value of its own, no call reads or writes what another
\* call uses, and Field::new and NamedField::new copy the descriptor they are
\* given and leave it unchanged.
C13_TypeInfoIsPure == []CallsAgree /\ [][NoInterference]_vars

\* thread 1 has the descriptors of two calls, and thread 2, which returned one
\* in between, is inside its next call, just after Field::new, on a type with
\* a struct as the second field
C13_Witness ==
    /\ Len(calls[1].rets) = 2
    /\ Len(calls[2].rets) = 1
    /\ calls[2].rets[1] > calls[1].rets[1]
    /\ calls[2].rets[1] < calls[1].rets[2]
    /\ calls[2].pc = "drop"
    /\ Len(calls[2].fields) = 2
    /\ ty.k = "tuple"
    /\ ty.tys[2] = Color
    /\ heap[calls[1].rets[1]].val = heap[calls[2].rets[1]].val

=============================================================================
